---------------------------- MODULE Spec2Model ----------------------------
(***************************************************************************)
(* Adjacent-lane lead tracking of opendbc/car/hyundai.                     *)
(*                                                                         *)
(* CarState.update_adjacent_lanes_from_live_tracks (carstate.py) gates the *)
(* radar points of one cycle into a left and a right candidate list and    *)
(* runs one hysteresis tracker per side.                                   *)
(* RadarInterface._update (radar_interface.py) keeps the detection store   *)
(* and picks the nearest point of each adjacent lane.                      *)
(*                                                                         *)
(* Numbers: the source works on floats; the model keeps every length,      *)
(* speed and lateral offset in hundredths (1.8 m is 180, 8.94 m/s is 894), *)
(* so that every comparison of the source is an integer comparison with    *)
(* the same outcome.                                                       *)
(* Optional values: Python's None is the empty tuple, a present value x is *)
(* the one-element tuple <<x>>.                                            *)
(***************************************************************************)
EXTENDS Integers, Sequences, FiniteSets, TLC

VARIABLES
  left_lane_lead,         \* self.left_lane_lead   (None or <<point>>)
  right_lane_lead,        \* self.right_lane_lead
  left_lane_track_id,     \* self.left_lane_track_id (None or <<id>>)
  right_lane_track_id,    \* self.right_lane_track_id
  left_lane_track_count,  \* self.left_lane_track_count
  right_lane_track_count, \* self.right_lane_track_count
  left_lane_lost_count,   \* self.left_lane_lost_count
  right_lane_lost_count,  \* self.right_lane_lost_count
  left_lane_quality,      \* self.left_lane_quality
  right_lane_quality,     \* self.right_lane_quality
  left_lane,              \* local left_lane of the latest call (<<>> if not built)
  right_lane,             \* local right_lane of the latest call (<<>> if not built)
  v_ego,                  \* argument v_ego of the latest call
  op,                     \* the latest operation and the return it took
  env,                    \* the environment explored: which lane lines the camera reports
  obs,                    \* observer: per-side history of the lock, see Observe
  pts,                    \* RadarInterface.pts, the detection store, in insertion order
  track_id,               \* RadarInterface.track_id, the next track id
  ri_left_lane_lead,      \* RadarInterface.left_lane_lead  (None or <<point>>)
  ri_right_lane_lead,     \* RadarInterface.right_lane_lead
  radar_points,           \* argument of the latest _update_adjacent_lane_leads
  vl,                     \* rcp.vl: the report of every slot read by the latest pass
  updated_messages,       \* RadarInterface.updated_messages
  vls                     \* the addresses rcp.update returned to the latest update

cs_vars == <<left_lane_lead, right_lane_lead, left_lane_track_id, right_lane_track_id,
             left_lane_track_count, right_lane_track_count,
             left_lane_lost_count, right_lane_lost_count>>

vars == <<left_lane_lead, right_lane_lead, left_lane_track_id, right_lane_track_id,
          left_lane_track_count, right_lane_track_count,
          left_lane_lost_count, right_lane_lost_count,
          left_lane_quality, right_lane_quality, left_lane, right_lane, v_ego, op, env, obs,
          pts, track_id, ri_left_lane_lead, ri_right_lane_lead, radar_points, vl,
          updated_messages, vls>>

ri_vars == <<pts, track_id, ri_left_lane_lead, ri_right_lane_lead, radar_points, vl,
             updated_messages, vls>>

-----------------------------------------------------------------------------
(* Program constants, in hundredths.                                       *)

MIN_TRACK_COUNT == 5
MAX_LOST_COUNT == 10
LANE_BOUNDARY == 180
MAX_LATERAL == 450
MIN_SPEED_FOR_ADJACENT_LANES == 894
DREL_MIN == 75
DREL_MAX == 20000
MOVING_SPEED == 100
MOVING_VREL_MIN == 100
STOPPED_VREL_MAX == -700
DEFAULT_V_EGO == 0           \* default of the argument v_ego
RADAR_LANE_BOUNDARY == 180   \* LANE_BOUNDARY of _update_adjacent_lane_leads
RADAR_MAX_LATERAL == 550     \* MAX_LATERAL of _update_adjacent_lane_leads

(* Bounds of the exploration.                                              *)

MaxLen == 2      \* longest point list passed in one call
MaxCount == 6    \* calls are explored while the track counts stay <= MaxCount
NumSlots == 2    \* radar slots read by one pass (radar_count of the source is 32)
MaxTrackId == 4  \* passes are explored while track_id stays <= MaxTrackId

None == <<>>
Some(x) == <<x>>

Abs(x) == IF x < 0 THEN -x ELSE x

-----------------------------------------------------------------------------
(* Inputs.                                                                 *)

Point(id, d, y, v, m) == [trackId |-> id, dRel |-> d, yRel |-> y, vRel |-> v, measured |-> m]

\* The points the tracker is explored with on its side: track 2 at two
\* distances, track 3 behind or ahead of it, and track 2 on the other side.
LeftPoints ==
  { Point(2, 3000, -250, -500, TRUE), Point(2, 8000, -250, -500, TRUE),
    Point(3, 7000, -300, -500, TRUE), Point(2, 3000, 250, -500, TRUE) }

RightPoints ==
  { Point(2, 3000, 250, -500, TRUE), Point(2, 8000, 250, -500, TRUE),
    Point(3, 7000, 300, -500, TRUE), Point(2, 3000, -250, -500, TRUE) }

\* The points of the runs in which both sides track at once.
BothPoints ==
  { Point(2, 3000, -250, -500, TRUE), Point(2, 3000, 250, -500, TRUE) }

\* The lists of at most n points of S, no point twice.
SeqsUpTo(S, n) ==
  { ps \in UNION { [1..k -> S] : k \in 0..n } :
      \A i \in 1..Len(ps), j \in 1..Len(ps) : i # j => ps[i] # ps[j] }

\* live_tracks: present = FALSE stands for None or an object without points.
NoLiveTracks == [present |-> FALSE, points |-> <<>>]
LiveTracks(S) == { [present |-> TRUE, points |-> ps] : ps \in SeqsUpTo(S, MaxLen) }

\* Environments: the camera reports a lane line on the left only, on the
\* right only, or on both sides.  With both sides tracking, every call is
\* passed a point list at a speed at or above the gate.
Envs == {"left", "right", "both"}
EnvQualities(e) ==
  IF e = "left" THEN {<<0, 0>>, <<1, 0>>}
  ELSE IF e = "right" THEN {<<0, 0>>, <<0, 1>>}
  ELSE {<<1, 1>>}
EnvSpeeds(e) == IF e = "both" THEN {894} ELSE {893, 894}
LeftLiveTracks == LiveTracks(LeftPoints) \cup {NoLiveTracks}
RightLiveTracks == LiveTracks(RightPoints) \cup {NoLiveTracks}
BothLiveTracks == LiveTracks(BothPoints)
EnvLiveTracks(e) ==
  IF e = "left" THEN LeftLiveTracks
  ELSE IF e = "right" THEN RightLiveTracks
  ELSE BothLiveTracks

-----------------------------------------------------------------------------
(* Lane gate: carstate.py lines 132-172.                                   *)

\* Variant: filter 3 is not applied while the ego vehicle moves.
PassesFilters_novel(pt, v) ==
  /\ pt.measured
  /\ ~(pt.dRel < DREL_MIN \/ pt.dRel > DREL_MAX)
  /\ ~(Abs(pt.yRel) < LANE_BOUNDARY \/ Abs(pt.yRel) > MAX_LATERAL)
  /\ IF v > MOVING_SPEED
       THEN TRUE
       ELSE ~(pt.vRel > STOPPED_VREL_MAX)

\* Variant: filter 1 tests the distance only.
PassesFilters_unmeasured(pt, v) ==
  /\ ~(pt.dRel < DREL_MIN \/ pt.dRel > DREL_MAX)
  /\ ~(Abs(pt.yRel) < LANE_BOUNDARY \/ Abs(pt.yRel) > MAX_LATERAL)
  /\ IF v > MOVING_SPEED
       THEN ~(Abs(pt.vRel) < MOVING_VREL_MIN)
       ELSE ~(pt.vRel > STOPPED_VREL_MAX)

\* Filters 1-3 of the loop body: TRUE when the point reaches the side test.
PassesFilters(pt, v) ==
  /\ pt.measured
  /\ ~(pt.dRel < DREL_MIN \/ pt.dRel > DREL_MAX)
  /\ ~(Abs(pt.yRel) < LANE_BOUNDARY \/ Abs(pt.yRel) > MAX_LATERAL)
  /\ IF v > MOVING_SPEED
       THEN ~(Abs(pt.vRel) < MOVING_VREL_MIN)
       ELSE ~(pt.vRel > STOPPED_VREL_MAX)

InLeftBand(pt) == (0 - MAX_LATERAL) < pt.yRel /\ pt.yRel < (0 - LANE_BOUNDARY)

\* Variant: the right band includes its two ends.
InRightBand_closed(pt) == LANE_BOUNDARY <= pt.yRel /\ pt.yRel <= MAX_LATERAL

InRightBand(pt) == LANE_BOUNDARY < pt.yRel /\ pt.yRel < MAX_LATERAL

\* Variant: the left list does not look at the lane quality.
IsLeft_noquality(pt, v, lq) == PassesFilters(pt, v) /\ InLeftBand(pt)

\* Variant: the left test looks at the absolute offset.
IsLeft_abs(pt, v, lq) ==
  /\ PassesFilters(pt, v)
  /\ LANE_BOUNDARY < Abs(pt.yRel) /\ Abs(pt.yRel) < MAX_LATERAL
  /\ lq > 0

\* carstate.py lines 165-167
IsLeft(pt, v, lq) == PassesFilters(pt, v) /\ InLeftBand(pt) /\ lq > 0

\* Variant: the right test is an if of its own on the absolute offset.
IsRight_abs(pt, v, rq) ==
  /\ PassesFilters(pt, v)
  /\ LANE_BOUNDARY < Abs(pt.yRel) /\ Abs(pt.yRel) < MAX_LATERAL
  /\ rq > 0

\* carstate.py lines 170-172, the elif of line 165
IsRight(pt, v, rq) ==
  PassesFilters(pt, v) /\ ~InLeftBand(pt) /\ InRightBand(pt) /\ rq > 0

\* Variant: the left list takes every point that passes filters 1-3.
LeftLane_anyside(points, v, lq) ==
  SelectSeq(points, LAMBDA pt : PassesFilters(pt, v) /\ lq > 0)

LeftLane(points, v, lq) == SelectSeq(points, LAMBDA pt : IsLeft(pt, v, lq))

\* Variant: the right list takes every point that passes filters 1-3.
RightLane_anyside(points, v, rq) ==
  SelectSeq(points, LAMBDA pt : PassesFilters(pt, v) /\ rq > 0)

RightLane(points, v, rq) == SelectSeq(points, LAMBDA pt : IsRight(pt, v, rq))

-----------------------------------------------------------------------------
(* Helpers of the tracker.                                                 *)

\* Variant: the first candidate instead of the nearest.
MinDRel_first(lane) == lane[1]

\* min(lane, key=lambda pt: pt.dRel): the first point of minimal dRel.
MinDRel(lane) ==
  LET i == CHOOSE k \in 1..Len(lane) :
             /\ \A j \in 1..Len(lane) : lane[k].dRel <= lane[j].dRel
             /\ \A j \in 1..(k - 1) : lane[j].dRel > lane[k].dRel
  IN lane[i]

\* next((pt for pt in lane if pt.trackId == id), None)
SameTrack(lane, id) ==
  IF \E k \in 1..Len(lane) : lane[k].trackId = id
    THEN LET i == CHOOSE k \in 1..Len(lane) :
                    /\ lane[k].trackId = id
                    /\ \A j \in 1..(k - 1) : lane[j].trackId # id
         IN Some(lane[i])
    ELSE None

-----------------------------------------------------------------------------
(* Continuity tracker of one side: the new (id, count, lost, lead) of the  *)
(* side from the old ones and the side's candidate list.                   *)

\* Variants: the threshold off by one, either way.
Confirmed_early(count) == count >= MIN_TRACK_COUNT - 1
Confirmed_late(count) == count > MIN_TRACK_COUNT

\* carstate.py line 188: the track was seen often enough to be shown.
Confirmed(count) == count >= MIN_TRACK_COUNT

\* Variant: given up one miss late.
TrackLost_late(lost) == lost > MAX_LOST_COUNT + 1

\* carstate.py line 196: the track is given up.
TrackLost(lost) == lost > MAX_LOST_COUNT

TrackerState(id, count, lost, lead) ==
  [id |-> id, count |-> count, lost |-> lost, lead |-> lead]

\* Variant: the lead is left as it was while the locked track is missed.
LeftTracker_stale(id, count, lost, lead, lane) ==
  IF id # None
    THEN LET same_track == SameTrack(lane, id[1]) IN
         IF same_track # None
           THEN TrackerState(id, count + 1, 0,
                             IF Confirmed(count + 1) THEN same_track ELSE None)
           ELSE IF TrackLost(lost + 1)
                  THEN IF lane # <<>>
                         THEN TrackerState(Some(MinDRel(lane).trackId), 1, 0, None)
                         ELSE TrackerState(None, 0, 0, None)
                  ELSE TrackerState(id, count, lost + 1, lead)
    ELSE IF lane # <<>>
           THEN TrackerState(Some(MinDRel(lane).trackId), 1, 0, None)
           ELSE TrackerState(id, count, lost, None)

\* Variant: a track found again after a miss starts a new confirmation.
LeftTracker_reconfirm(id, count, lost, lead, lane) ==
  IF id # None
    THEN LET same_track == SameTrack(lane, id[1])
             n == IF lost > 0 THEN 1 ELSE count + 1 IN
         IF same_track # None
           THEN TrackerState(id, n, 0, IF Confirmed(n) THEN same_track ELSE None)
           ELSE IF TrackLost(lost + 1)
                  THEN IF lane # <<>>
                         THEN TrackerState(Some(MinDRel(lane).trackId), 1, 0, None)
                         ELSE TrackerState(None, 0, 0, None)
                  ELSE TrackerState(id, count, lost + 1, None)
    ELSE IF lane # <<>>
           THEN TrackerState(Some(MinDRel(lane).trackId), 1, 0, None)
           ELSE TrackerState(id, count, lost, None)

\* Variant: an abandoned lock is only cleared, the next cycle acquires.
LeftTracker_defer(id, count, lost, lead, lane) ==
  IF id # None
    THEN LET same_track == SameTrack(lane, id[1]) IN
         IF same_track # None
           THEN TrackerState(id, count + 1, 0,
                             IF Confirmed(count + 1) THEN same_track ELSE None)
           ELSE IF TrackLost(lost + 1)
                  THEN TrackerState(None, 0, 0, None)
                  ELSE TrackerState(id, count, lost + 1, None)
    ELSE IF lane # <<>>
           THEN TrackerState(Some(MinDRel(lane).trackId), 1, 0, None)
           ELSE TrackerState(id, count, lost, None)

\* Variant: the lock moves to the nearest candidate as soon as there is one
\* of another track.
LeftTracker_greedy(id, count, lost, lead, lane) ==
  IF id # None /\ lane # <<>> /\ MinDRel(lane).trackId # id[1]
    THEN TrackerState(Some(MinDRel(lane).trackId), 1, 0, None)
  ELSE IF id # None
    THEN LET same_track == SameTrack(lane, id[1]) IN
         IF same_track # None
           THEN TrackerState(id, count + 1, 0,
                             IF Confirmed(count + 1) THEN same_track ELSE None)
           ELSE IF TrackLost(lost + 1)
                  THEN TrackerState(None, 0, 0, None)
                  ELSE TrackerState(id, count, lost + 1, None)
    ELSE IF lane # <<>>
           THEN TrackerState(Some(MinDRel(lane).trackId), 1, 0, None)
           ELSE TrackerState(id, count, lost, None)

\* Variant: the lock taken in the abandoning cycle starts its count at 0.
LeftTracker_fromzero(id, count, lost, lead, lane) ==
  IF id # None
    THEN LET same_track == SameTrack(lane, id[1]) IN
         IF same_track # None
           THEN TrackerState(id, count + 1, 0,
                             IF Confirmed(count + 1) THEN same_track ELSE None)
           ELSE IF TrackLost(lost + 1)
                  THEN IF lane # <<>>
                         THEN TrackerState(Some(MinDRel(lane).trackId), 0, 0, None)
                         ELSE TrackerState(None, 0, 0, None)
                  ELSE TrackerState(id, count, lost + 1, None)
    ELSE IF lane # <<>>
           THEN TrackerState(Some(MinDRel(lane).trackId), 1, 0, None)
           ELSE TrackerState(id, count, lost, None)

\* carstate.py lines 180-218
LeftTracker(id, count, lost, lead, lane) ==
  IF id # None
    THEN LET same_track == SameTrack(lane, id[1]) IN
         IF same_track # None
           THEN TrackerState(id, count + 1, 0,
                             IF Confirmed(count + 1) THEN same_track ELSE None)
           ELSE IF TrackLost(lost + 1)
                  THEN IF lane # <<>>
                         THEN TrackerState(Some(MinDRel(lane).trackId), 1, 0, None)
                         ELSE TrackerState(None, 0, 0, None)
                  ELSE TrackerState(id, count, lost + 1, None)
    ELSE IF lane # <<>>
           THEN TrackerState(Some(MinDRel(lane).trackId), 1, 0, None)
           ELSE TrackerState(id, count, lost, None)

\* Variant: the track count of an abandoned lock is carried to the new one.
RightTracker_carry(id, count, lost, lead, lane) ==
  IF id # None
    THEN LET same_track == SameTrack(lane, id[1]) IN
         IF same_track # None
           THEN TrackerState(id, count + 1, 0,
                             IF Confirmed(count + 1) THEN same_track ELSE None)
           ELSE IF TrackLost(lost + 1)
                  THEN IF lane # <<>>
                         THEN TrackerState(Some(MinDRel(lane).trackId), count, 0, None)
                         ELSE TrackerState(None, 0, 0, None)
                  ELSE TrackerState(id, count, lost + 1, None)
    ELSE IF lane # <<>>
           THEN TrackerState(Some(MinDRel(lane).trackId), 1, 0, None)
           ELSE TrackerState(id, count, lost, None)

\* carstate.py lines 221-258
RightTracker(id, count, lost, lead, lane) ==
  IF id # None
    THEN LET same_track == SameTrack(lane, id[1]) IN
         IF same_track # None
           THEN TrackerState(id, count + 1, 0,
                             IF Confirmed(count + 1) THEN same_track ELSE None)
           ELSE IF TrackLost(lost + 1)
                  THEN IF lane # <<>>
                         THEN TrackerState(Some(MinDRel(lane).trackId), 1, 0, None)
                         ELSE TrackerState(None, 0, 0, None)
                  ELSE TrackerState(id, count, lost + 1, None)
    ELSE IF lane # <<>>
           THEN TrackerState(Some(MinDRel(lane).trackId), 1, 0, None)
           ELSE TrackerState(id, count, lost, None)

-----------------------------------------------------------------------------
(* Observer of one side's lock.  It is computed from what a cycle shows    *)
(* (the locked id before and after, the candidate list), never from the    *)
(* tracker's counters.  A cycle is a call that was passed a point list; in *)
(* a cycle that returns at the speed gate the candidate list is empty.     *)
(*   seen    cycles since the lock was acquired with the locked track in   *)
(*           the candidate list (the acquiring cycle included)             *)
(*   streak  the latest consecutive such cycles, among the cycles at or    *)
(*           above the speed gate                                          *)
(*   gap     the latest consecutive cycles with the locked track absent    *)
(*   misses  the cycles at or above the speed gate with the locked track   *)
(*           absent since it was last in the candidate list                *)
(*   exposed the lead was non-null since the lock was acquired             *)
(*   dropped the latest cycle gave up a lock of this side                  *)

ObsCap == MAX_LOST_COUNT + 2
Sat(n) == IF n > ObsCap THEN ObsCap ELSE n

NoObs == [seen |-> 0, streak |-> 0, gap |-> 0, misses |-> 0, exposed |-> FALSE,
          dropped |-> FALSE]

Observe(o, id, id2, lead2, lane2, op2) ==
  IF op2 \notin {"low_speed", "tracked"} THEN [o EXCEPT !.exposed = o.exposed \/ lead2 # None]
  ELSE IF id2 = None THEN [NoObs EXCEPT !.dropped = id # None]
  ELSE IF id2 # id
    THEN [seen |-> 1, streak |-> 1, gap |-> 0, misses |-> 0, exposed |-> lead2 # None,
          dropped |-> id # None]
  ELSE IF SameTrack(lane2, id2[1]) # None
    THEN [seen |-> Sat(o.seen + 1), streak |-> Sat(o.streak + 1), gap |-> 0, misses |-> 0,
          exposed |-> o.exposed \/ lead2 # None, dropped |-> FALSE]
    ELSE [seen |-> o.seen, streak |-> IF op2 = "tracked" THEN 0 ELSE o.streak,
          gap |-> Sat(o.gap + 1),
          misses |-> IF op2 = "tracked" THEN Sat(o.misses + 1) ELSE o.misses,
          exposed |-> o.exposed \/ lead2 # None, dropped |-> FALSE]

-----------------------------------------------------------------------------
(* Operations.                                                             *)

\* RadarInterface.__init__, radar_interface.py lines 40-49; the store starts
\* empty and no slot has been read.
RadarInit ==
  /\ pts = <<>> /\ track_id = 0
  /\ ri_left_lane_lead = None /\ ri_right_lane_lead = None
  /\ radar_points = <<>> /\ vl = <<>>
  /\ updated_messages = {} /\ vls = {}

\* CarState.__init__, carstate.py lines 73-91
CarStateInit ==
  /\ left_lane_lead = None /\ right_lane_lead = None
  /\ left_lane_track_id = None /\ right_lane_track_id = None
  /\ left_lane_track_count = 0 /\ right_lane_track_count = 0
  /\ left_lane_lost_count = 0 /\ right_lane_lost_count = 0
  /\ left_lane_quality = 0 /\ right_lane_quality = 0
  /\ left_lane = <<>> /\ right_lane = <<>>
  /\ v_ego = 0 /\ op = "init"

Init ==
  /\ RadarInit
  /\ CarStateInit
  /\ env \in Envs
  /\ obs = [l |-> NoObs, r |-> NoObs]

\* CarState.update_canfd, carstate.py lines 463-465: the lane-quality signals
\* of the camera message are copied into the two fields.
update_canfd(lq, rq) ==
  /\ left_lane_quality' = lq
  /\ right_lane_quality' = rq
  /\ op' = "canfd"
  /\ UNCHANGED <<cs_vars, left_lane, right_lane, v_ego, env, obs, ri_vars>>

\* carstate.py line 117
NoPoints(live_tracks) == ~live_tracks.present

\* Variant: the gate compares with the ego-stopped threshold of filter 3.
BelowSpeedGate_stopped(v) == v < MOVING_SPEED

\* Variant: there is no speed gate.
BelowSpeedGate_never(v) == FALSE

\* Variant: the gate holds back a moving ego vehicle only.
BelowSpeedGate_moving(v) == v > MOVING_SPEED /\ v < MIN_SPEED_FOR_ADJACENT_LANES

\* carstate.py line 123
BelowSpeedGate(v) == v < MIN_SPEED_FOR_ADJACENT_LANES

\* CarState.update_adjacent_lanes_from_live_tracks, carstate.py lines 108-262.
\* The two rear leads (lines 261-262) are None from __init__ on and are left out.
AdjacentLanesCall(live_tracks, v) ==
  /\ v_ego' = v
  /\ UNCHANGED <<left_lane_quality, right_lane_quality, env, ri_vars>>
  /\ IF NoPoints(live_tracks)
       THEN /\ op' = "no_tracks"
            /\ left_lane' = <<>> /\ right_lane' = <<>>
            /\ UNCHANGED cs_vars
       ELSE IF BelowSpeedGate(v)
       THEN /\ op' = "low_speed"
            /\ left_lane' = <<>> /\ right_lane' = <<>>
            /\ left_lane_lead' = None
            /\ right_lane_lead' = None
            /\ UNCHANGED <<left_lane_track_id, right_lane_track_id,
                           left_lane_track_count, right_lane_track_count,
                           left_lane_lost_count, right_lane_lost_count>>
       ELSE LET ll == LeftLane(live_tracks.points, v, left_lane_quality)
                rl == RightLane(live_tracks.points, v, right_lane_quality)
                l == LeftTracker(left_lane_track_id, left_lane_track_count,
                                 left_lane_lost_count, left_lane_lead, ll)
                r == RightTracker(right_lane_track_id, right_lane_track_count,
                                  right_lane_lost_count, right_lane_lead, rl)
            IN /\ l.count <= MaxCount /\ r.count <= MaxCount
               /\ op' = "tracked"
               /\ left_lane' = ll /\ right_lane' = rl
               /\ left_lane_track_id' = l.id
               /\ left_lane_track_count' = l.count
               /\ left_lane_lost_count' = l.lost
               /\ left_lane_lead' = l.lead
               /\ right_lane_track_id' = r.id
               /\ right_lane_track_count' = r.count
               /\ right_lane_lost_count' = r.lost
               /\ right_lane_lead' = r.lead

\* The call, with the observer of the two locks stepped along.
update_adjacent_lanes_from_live_tracks(live_tracks, v) ==
  /\ AdjacentLanesCall(live_tracks, v)
  /\ obs' = [l |-> Observe(obs.l, left_lane_track_id, left_lane_track_id',
                           left_lane_lead', left_lane', op'),
             r |-> Observe(obs.r, right_lane_track_id, right_lane_track_id',
                           right_lane_lead', right_lane', op')]

SetQuality == \E q \in EnvQualities(env) : update_canfd(q[1], q[2])

Cycle ==
  \E live_tracks \in EnvLiveTracks(env), v \in EnvSpeeds(env) :
    update_adjacent_lanes_from_live_tracks(live_tracks, v)

Next == SetQuality \/ Cycle

Spec == Init /\ [][Next]_vars

\* Range of the counters.
TypeOK ==
  /\ left_lane_track_count \in 0..MaxCount
  /\ right_lane_track_count \in 0..MaxCount
  /\ left_lane_lost_count \in 0..MAX_LOST_COUNT
  /\ right_lane_lost_count \in 0..MAX_LOST_COUNT

-----------------------------------------------------------------------------
(* The two sides, for the properties.                                      *)

Sides == {"l", "r"}
Id(s) == IF s = "l" THEN left_lane_track_id ELSE right_lane_track_id
Count(s) == IF s = "l" THEN left_lane_track_count ELSE right_lane_track_count
Lost(s) == IF s = "l" THEN left_lane_lost_count ELSE right_lane_lost_count
Lead(s) == IF s = "l" THEN left_lane_lead ELSE right_lane_lead
Lane(s) == IF s = "l" THEN left_lane ELSE right_lane
OtherLane(s) == IF s = "l" THEN right_lane ELSE left_lane

Elems(lane) == { lane[k] : k \in 1..Len(lane) }

\* A call that was passed a point list.
Cycles == {"low_speed", "tracked"}

-----------------------------------------------------------------------------
(* C1: after every call, a side's lead is non-null only if that side's     *)
(* track count is at least MIN_TRACK_COUNT.                                *)
C1_LeadOnlyIfConfirmed ==
  \A s \in Sides : Lead(s) # None => Count(s) >= MIN_TRACK_COUNT

C1_Witness ==
  /\ op = "tracked"
  /\ left_lane_lead # None /\ left_lane_track_count = MIN_TRACK_COUNT
  /\ right_lane_lead # None

(* C2: at the end of every call, the early returns included, a non-null    *)
(* lead of a side is a point with the side's locked track id that is in    *)
(* the side's candidate list built from the points of this very call, and  *)
(* not in the other side's.                                                *)
C2_LeadFromThisCycle ==
  op \in {"no_tracks", "low_speed", "tracked"} =>
    \A s \in Sides :
      Lead(s) # None =>
        /\ Id(s) # None
        /\ Lead(s)[1].trackId = Id(s)[1]
        /\ Lead(s)[1] \in Elems(Lane(s))
        /\ Lead(s)[1] \notin Elems(OtherLane(s))

-----------------------------------------------------------------------------
\* The locked track of side s (before the step) is not in the candidate list
\* the step builds for s.
AbsentNext(s) == SameTrack(Lane(s)', Id(s)[1]) = None

\* id is the track id of a point of minimal dRel of the list.
IsNearest(lane, id) ==
  \E k \in 1..Len(lane) :
    /\ lane[k].trackId = id
    /\ \A j \in 1..Len(lane) : lane[k].dRel <= lane[j].dRel

(* C3, as claimed: when a side's lead becomes non-null for the first time  *)
(* since the lock was acquired, the locked track was in the side's         *)
(* candidate list in each of the MIN_TRACK_COUNT latest cycles (of those   *)
(* at or above the speed gate): no missed cycle lies between the matches.  *)
C3_ConsecutiveConfirmation ==
  [][ \A s \in Sides :
        (Lead(s)' # None /\ ~obs[s].exposed) => obs'[s].streak >= MIN_TRACK_COUNT ]_vars

(* C3, amended: when a side's lead becomes non-null for the first time     *)
(* since the lock was acquired, the locked track is in the candidate list  *)
(* of this cycle and was in the candidate list of exactly MIN_TRACK_COUNT  *)
(* cycles since the lock was acquired, this one and the acquiring one      *)
(* included; these cycles need not be consecutive.                         *)
C3_CountedConfirmation ==
  [][ \A s \in Sides :
        (Lead(s)' # None /\ ~obs[s].exposed) =>
          /\ obs'[s].seen = MIN_TRACK_COUNT
          /\ obs'[s].streak >= 1 ]_vars

\* A lead shown for the first time after a confirmation with a gap in it.
C3_Witness ==
  /\ op = "tracked"
  /\ left_lane_lead # None
  /\ obs.l.seen = MIN_TRACK_COUNT
  /\ obs.l.streak < MIN_TRACK_COUNT

(* C4: from the cycle in which a side acquires the nearest candidate T,    *)
(* while T is in the side's candidate list in every cycle with no gap, the *)
(* lead is null at the end of cycles 1..MIN_TRACK_COUNT-1 and is T's point *)
(* at the end of cycle MIN_TRACK_COUNT.                                    *)
C4_ConfirmedAfterMinTrackCount ==
  \A s \in Sides :
    (op = "tracked" /\ Id(s) # None /\ obs[s].streak = obs[s].seen
       /\ obs[s].seen \in 1..MIN_TRACK_COUNT) =>
      /\ obs[s].seen = 1 => IsNearest(Lane(s), Id(s)[1])
      /\ obs[s].seen < MIN_TRACK_COUNT => Lead(s) = None
      /\ obs[s].seen = MIN_TRACK_COUNT =>
            /\ Lead(s) # None
            /\ Lead(s) = SameTrack(Lane(s), Id(s)[1])

\* Scenario A: id 2 at 30 m and id 3 at 70 m on the left, fifth cycle.
C4_Witness ==
  /\ op = "tracked"
  /\ obs.l.seen = MIN_TRACK_COUNT /\ obs.l.streak = MIN_TRACK_COUNT
  /\ Point(3, 7000, -300, -500, TRUE) \in Elems(left_lane)
  /\ left_lane_lead = Some(Point(2, 3000, -250, -500, TRUE))

(* C5: in a cycle in which a side holds a lock and the locked track is not *)
(* in the side's candidate list, the side's lead is null at the end of the *)
(* cycle, whatever it was before.                                          *)
C5_ImmediateClearOnMiss ==
  [][ \A s \in Sides :
        (op' \in Cycles /\ Id(s) # None /\ AbsentNext(s)) => Lead(s)' = None ]_vars

\* A lead that was shown under the present lock is cleared by a miss.
C5_Witness ==
  /\ op = "tracked"
  /\ left_lane_track_id # None /\ obs.l.exposed /\ obs.l.misses = 1
  /\ left_lane # <<>>
  /\ left_lane_lead = None

(* C6: a lock on T is kept through up to MAX_LOST_COUNT consecutive cycles *)
(* with T absent from the side's candidate list and is abandoned in the    *)
(* cycle of the (MAX_LOST_COUNT+1)-th consecutive absence, every cycle     *)
(* with T absent counting as a miss, the cycles below the speed gate too.  *)
C6_AbandonedAfterMaxLostAbsences ==
  [][ \A s \in Sides :
        (op' \in Cycles /\ Id(s) # None /\ AbsentNext(s)) =>
          IF obs[s].gap >= MAX_LOST_COUNT THEN Id(s)' # Id(s) ELSE Id(s)' = Id(s) ]_vars

(* C7: in every cycle in which a side holds a lock, lost_count is 0 after  *)
(* the cycle if the locked track is in the candidate list, and is raised   *)
(* by exactly 1 if it is absent (also when the gate yields no candidates   *)
(* at all), before the reset of an abandonment.                            *)
C7_LostCountEveryCycle ==
  [][ \A s \in Sides :
        (op' \in Cycles /\ Id(s) # None) =>
          IF ~AbsentNext(s) THEN Lost(s)' = 0
          ELSE \/ Lost(s)' = Lost(s) + 1
               \/ Lost(s) + 1 > MAX_LOST_COUNT /\ Id(s)' # Id(s) /\ Lost(s)' = 0 ]_vars

(* C8: a lock with confirm_count >= MIN_TRACK_COUNT whose track was absent *)
(* for k consecutive cycles, 1 <= k <= MAX_LOST_COUNT, and is in the       *)
(* candidate list again: the locked id is unchanged, lost_count is 0, the  *)
(* count goes on and the lead is the track's point.                        *)
C8_NoReconfirmation ==
  [][ \A s \in Sides :
        (op' \in Cycles /\ Id(s) # None /\ Count(s) >= MIN_TRACK_COUNT
           /\ obs[s].gap \in 1..MAX_LOST_COUNT /\ ~AbsentNext(s)) =>
          /\ Id(s)' = Id(s)
          /\ Lost(s)' = 0
          /\ Count(s)' = Count(s) + 1
          /\ Lead(s)' # None
          /\ Lead(s)' = SameTrack(Lane(s)', Id(s)[1]) ]_vars

\* A confirmed track shown again in the cycle it came back after misses.
C8_Witness ==
  /\ op = "tracked"
  /\ left_lane_lead # None
  /\ left_lane_track_count > MIN_TRACK_COUNT
  /\ obs.l.streak = 1 /\ obs.l.seen > MIN_TRACK_COUNT

(* C9: when a side acquires a lock (it held none, or abandons one in this  *)
(* cycle) and its candidate list is non-empty, the new locked id is that   *)
(* of a candidate of minimal dRel, with confirm_count 1, lost_count 0 and  *)
(* a null lead after the cycle.                                            *)
C9_NearestWins ==
  [][ \A s \in Sides :
        (/\ op' = "tracked"
         /\ Lane(s)' # <<>>
         /\ \/ Id(s) = None
            \/ Id(s)' # Id(s)
            \/ obs[s].misses = MAX_LOST_COUNT /\ AbsentNext(s)) =>
          /\ Id(s)' # None
          /\ Id(s)' # Id(s)
          /\ IsNearest(Lane(s)', Id(s)'[1])
          /\ Count(s)' = 1
          /\ Lost(s)' = 0
          /\ Lead(s)' = None ]_vars

\* The nearer one of two candidates was acquired, the farther one being the
\* first in the list.
C9_Witness ==
  /\ op = "tracked"
  /\ Len(right_lane) = 2
  /\ right_lane[1].dRel > right_lane[2].dRel
  /\ right_lane_track_id = Some(right_lane[2].trackId)
  /\ right_lane_track_count = 1
  /\ obs.r.seen = 1

(* C10: after every call with a point list and v_ego < 8.94 m/s both leads *)
(* are null, whatever the points, the lane qualities and the state before. *)
C10_LowSpeedClear ==
  (op \in Cycles /\ v_ego < MIN_SPEED_FOR_ADJACENT_LANES) =>
    left_lane_lead = None /\ right_lane_lead = None

\* A call below the gate on a lock whose lead was shown.
C10_Witness ==
  /\ op = "low_speed" /\ v_ego = MIN_SPEED_FOR_ADJACENT_LANES - 1
  /\ obs.l.exposed /\ obs.l.gap = 1
  /\ left_lane_quality > 0

-----------------------------------------------------------------------------
(* The lane gate on one call.                                              *)
(*                                                                         *)
(* SpecGate takes a state the tracker reaches (GateStarts), lets the       *)
(* camera set the two lane qualities, and runs one call on a point list    *)
(* drawn from GatePoints: points on the ends of the lateral band, a point  *)
(* stationary to the ego vehicle, unmeasured and out-of-range points.      *)
(* Here obs records the point list of that call and that it has run.       *)

gL == Point(2, 3000, -250, -500, TRUE)
gR == Point(2, 3000, 250, -500, TRUE)

\* Scenario C: a track that is stationary relative to the ego vehicle.
gStationary == Point(9, 3000, 200, 0, TRUE)
StationaryId == gStationary.trackId

\* A track of the left band that pulls away at 8 m/s.
gFast == Point(5, 4000, -250, -800, TRUE)

GatePoints ==
  { gL, gR, gStationary, gFast,
    Point(2, 3000, 180, -500, TRUE),       \* on LANE_BOUNDARY
    Point(2, 3000, -450, -500, TRUE),      \* on -MAX_LATERAL
    Point(2, 3000, -250, -500, FALSE),     \* not measured
    Point(2, 74, -250, -500, TRUE),        \* nearer than 0.75 m
    Point(2, 20001, 250, -500, TRUE),      \* farther than 200 m
    Point(3, 75, -300, -500, TRUE),        \* at 0.75 m
    Point(4, 3000, -300, -500, TRUE) }     \* left, as far as gL

GateSpeeds == {50, MOVING_SPEED, 893, 1500}

\* States of the two trackers before the call: fresh; both locks one match
\* short of MIN_TRACK_COUNT; both locks confirmed; both locks confirmed and
\* absent for MAX_LOST_COUNT cycles.
GateStart(q, o, id, count, lost, lead, ll, rl) ==
  [q |-> q, op |-> o, id |-> id, count |-> count, lost |-> lost,
   llead |-> IF lead THEN Some(gL) ELSE None, rlead |-> IF lead THEN Some(gR) ELSE None,
   ll |-> ll, rl |-> rl]

GateStarts ==
  { GateStart(0, "init", None, 0, 0, FALSE, <<>>, <<>>),
    GateStart(1, "tracked", Some(2), MIN_TRACK_COUNT - 1, 0, FALSE, <<gL>>, <<gR>>),
    GateStart(1, "tracked", Some(2), MIN_TRACK_COUNT, 0, TRUE, <<gL>>, <<gR>>),
    GateStart(1, "tracked", Some(2), MIN_TRACK_COUNT, MAX_LOST_COUNT, FALSE, <<>>, <<>>) }

InitGate ==
  /\ RadarInit
  /\ env = "gate"
  /\ obs = [points |-> <<>>, applied |-> FALSE]
  /\ \E st \in GateStarts :
       /\ left_lane_lead = st.llead /\ right_lane_lead = st.rlead
       /\ left_lane_track_id = st.id /\ right_lane_track_id = st.id
       /\ left_lane_track_count = st.count /\ right_lane_track_count = st.count
       /\ left_lane_lost_count = st.lost /\ right_lane_lost_count = st.lost
       /\ left_lane_quality = st.q /\ right_lane_quality = st.q
       /\ left_lane = st.ll /\ right_lane = st.rl
       /\ v_ego = IF st.op = "init" THEN 0 ELSE 1500
       /\ op = st.op

GateSetQuality == \E lq \in {0, 1}, rq \in {0, 1} : update_canfd(lq, rq)

GateCall ==
  /\ ~obs.applied
  /\ \E ps \in SeqsUpTo(GatePoints, MaxLen), v \in GateSpeeds :
       /\ AdjacentLanesCall([present |-> TRUE, points |-> ps], v)
       /\ obs' = [points |-> ps, applied |-> TRUE]

NextGate == GateSetQuality \/ GateCall

SpecGate == InitGate /\ [][NextGate]_vars

\* The call of SpecGate has run and built the two candidate lists.
GateTracked == obs.applied /\ op = "tracked"

\* C11: in every cycle the left and the right candidate list have no point
\* in common: no point of the input list is appended to both.
C11_CandidatesDisjoint == Elems(left_lane) \cap Elems(right_lane) = {}

C11_Witness ==
  /\ GateTracked
  /\ left_lane # <<>> /\ right_lane # <<>>
  /\ Len(obs.points) = Len(left_lane) + Len(right_lane)

Quality(s) == IF s = "l" THEN left_lane_quality ELSE right_lane_quality
Other(s) == IF s = "l" THEN "r" ELSE "l"

\* The points of the two candidate lists and the two leads.
Candidates == Elems(left_lane) \cup Elems(right_lane)
Leads == Elems(left_lane_lead) \cup Elems(right_lane_lead)

\* C12: a point is a candidate only if LANE_BOUNDARY < |yRel| < MAX_LATERAL,
\* both strict: a point with |yRel| on either end is in neither candidate
\* list and is never a lead.
C12_StrictBand ==
  \A pt \in Candidates \cup Leads :
    LANE_BOUNDARY < Abs(pt.yRel) /\ Abs(pt.yRel) < MAX_LATERAL

\* Both ends were passed in, on sides whose quality is asserted, with the
\* track of the two points locked and one match short of a lead.
C12_Witness ==
  /\ GateTracked
  /\ left_lane_quality > 0 /\ right_lane_quality > 0
  /\ \E p \in Elems(obs.points) : p.yRel = LANE_BOUNDARY /\ PassesFilters(p, v_ego)
  /\ \E p \in Elems(obs.points) : p.yRel = 0 - MAX_LATERAL /\ PassesFilters(p, v_ego)
  /\ left_lane = <<>> /\ right_lane = <<>>
  /\ right_lane_track_id = Some(2) /\ right_lane_track_count = MIN_TRACK_COUNT - 1
  /\ right_lane_lost_count = 1 /\ right_lane_lead = None

\* C13: in every cycle with v_ego > 1.0 m/s no candidate has |vRel| < 1.0
\* m/s, so a track that is stationary relative to the ego vehicle in every
\* cycle is never locked and never a lead.
C13_StationaryExcluded ==
  /\ v_ego > MOVING_SPEED =>
       \A pt \in Candidates : Abs(pt.vRel) >= MOVING_VREL_MIN
  /\ \A s \in Sides : Id(s) # Some(StationaryId)
  /\ \A pt \in Leads : pt.trackId # StationaryId

\* Scenario C: the stationary point at yRel 2.0 was passed in at 15 m/s to a
\* fresh tracker whose right quality is asserted.
C13_Witness ==
  /\ GateTracked
  /\ v_ego = 1500 /\ right_lane_quality > 0
  /\ obs.points = <<gStationary>>
  /\ right_lane = <<>> /\ right_lane_track_id = None /\ right_lane_lead = None

\* The points of the list that pass filters 1-3 and lie in the band of side s.
InBand(points, v, s) ==
  SelectSeq(points, LAMBDA pt : /\ PassesFilters(pt, v)
                                /\ IF s = "l" THEN InLeftBand(pt) ELSE InRightBand(pt))

\* C14: in every cycle in which a side's lane quality is not asserted (<= 0)
\* that side's candidate list is empty and its lead is null after the cycle,
\* even with its confirmed locked track among the points; the candidates of
\* the other side are those of its band all the same.
C14_NoQualityNoLead ==
  \A s \in Sides :
    (obs.applied /\ op \in Cycles /\ Quality(s) <= 0) =>
       /\ Lane(s) = <<>>
       /\ Lead(s) = None
       /\ (op = "tracked" /\ Quality(Other(s)) > 0) =>
            OtherLane(s) = InBand(obs.points, v_ego, Other(s))

\* The left quality was dropped with the left lock confirmed; the locked
\* track was passed in on both sides.
C14_Witness ==
  /\ GateTracked
  /\ left_lane_quality = 0 /\ right_lane_quality = 1
  /\ obs.points = <<gL, gR>>
  /\ left_lane_track_id = Some(2) /\ left_lane_track_count = MIN_TRACK_COUNT
  /\ left_lane_lost_count = 1 /\ left_lane_lead = None
  /\ right_lane = <<gR>> /\ right_lane_lead = Some(gR)

\* Filters 1 and 2 as the claim words them.
Usable(pt) == pt.measured /\ pt.dRel >= DREL_MIN /\ pt.dRel <= DREL_MAX
UsableOnly(points) == SelectSeq(points, Usable)

\* C15: a point that is not measured, or has dRel < 0.75 or dRel > 200.0, is
\* in no candidate list and has no influence: the call ends in the state in
\* which the call on the list without such points ends.
C15_UnusableIgnored ==
  [][ (~obs.applied /\ obs'.applied) =>
        /\ \A pt \in Candidates' : Usable(pt)
        /\ AdjacentLanesCall([present |-> TRUE, points |-> UsableOnly(obs'.points)], v_ego')
    ]_vars

\* An unmeasured point of the locked track was passed in together with a
\* measured one.
C15_Witness ==
  /\ GateTracked
  /\ left_lane_quality > 0
  /\ obs.points = <<Point(2, 3000, -250, -500, FALSE), gL>>
  /\ left_lane = <<gL>> /\ left_lane_lead = Some(gL)

-----------------------------------------------------------------------------
(* Detection store: RadarInterface._update, radar_interface.py lines       *)
(* 73-149, with RADAR_FULL_RADAR set and the MRR35 decoding of lines       *)
(* 110-124.  The other two decodings run the same allocate / measure /     *)
(* delete steps on their keys (lines 95-108 and 128-141).                  *)
(*                                                                         *)
(* pts is a Python dict: the model keeps its entries [key, pt] in          *)
(* insertion order, which is the order of list(self.pts.values()).         *)
(* yvRel is NaN in every point and is left out, and so is the debug        *)
(* counter of lines 183-186, which only paces a printout.                  *)

Slots == 1..NumSlots

Report(state, d, y, v, a) ==
  [STATE |-> state, LONG_DIST |-> d, LAT_DIST |-> y, REL_SPEED |-> v, REL_ACCEL |-> a]

\* A slot of which no message has arrived yet: every signal is 0.
NoReport == Report(0, 0, 0, 0, 0)

RadarPoint(id, d, y, v, a, m) ==
  [trackId |-> id, dRel |-> d, yRel |-> y, vRel |-> v, aRel |-> a, measured |-> m]

\* structs.RadarData.RadarPoint() with the track id of line 114
NewRadarPoint(id) == RadarPoint(id, 0, 0, 0, 0, FALSE)

Keys(store) == { store[k].key : k \in 1..Len(store) }
PointOf(store, addr) == CHOOSE k \in 1..Len(store) : store[k].key = addr

\* Variant: the counter is not advanced.
Allocate_noinc(st, addr) ==
  IF addr \in Keys(st.pts) THEN st
  ELSE [st EXCEPT !.pts = Append(st.pts, [key |-> addr, pt |-> NewRadarPoint(st.track_id)])]

\* radar_interface.py lines 112-115
Allocate(st, addr) ==
  IF addr \in Keys(st.pts) THEN st
  ELSE [st EXCEPT !.pts = Append(st.pts, [key |-> addr, pt |-> NewRadarPoint(st.track_id)]),
                  !.track_id = st.track_id + 1]

\* radar_interface.py line 116
ValidState(msg) == msg.STATE \in {3, 4}

\* Variant: the lateral offset is not refreshed.
Measure_nolat(st, addr, msg) ==
  [st EXCEPT !.pts =
     [k \in DOMAIN st.pts |->
        IF st.pts[k].key = addr
          THEN [key |-> addr,
                pt |-> [st.pts[k].pt EXCEPT !.measured = TRUE,
                                            !.dRel = msg.LONG_DIST,
                                            !.vRel = msg.REL_SPEED,
                                            !.aRel = msg.REL_ACCEL]]
          ELSE st.pts[k]]]

\* radar_interface.py lines 117-122
Measure(st, addr, msg) ==
  [st EXCEPT !.pts =
     [k \in DOMAIN st.pts |->
        IF st.pts[k].key = addr
          THEN [key |-> addr,
                pt |-> [st.pts[k].pt EXCEPT !.measured = TRUE,
                                            !.dRel = msg.LONG_DIST,
                                            !.yRel = msg.LAT_DIST,
                                            !.vRel = msg.REL_SPEED,
                                            !.aRel = msg.REL_ACCEL]]
          ELSE st.pts[k]]]

\* Variant: the point is kept and marked unmeasured.
Delete_mark(st, addr) ==
  [st EXCEPT !.pts =
     [k \in DOMAIN st.pts |->
        IF st.pts[k].key = addr
          THEN [key |-> addr, pt |-> [st.pts[k].pt EXCEPT !.measured = FALSE]]
          ELSE st.pts[k]]]

\* radar_interface.py line 124: del self.pts[addr] raises KeyError when the
\* key is not in the dict; err records it.
Delete(st, addr) ==
  IF addr \in Keys(st.pts)
    THEN [st EXCEPT !.pts = SelectSeq(st.pts, LAMBDA e : e.key # addr)]
    ELSE [st EXCEPT !.err = TRUE]

\* Variant: a point is allocated for a valid report only.
SlotStep_onvalid(st, addr, msg) ==
  IF ValidState(msg) THEN Measure(Allocate(st, addr), addr, msg)
  ELSE IF addr \in Keys(st.pts) THEN Delete(st, addr) ELSE st

\* Variant: a point is allocated under the STATE test, the else branch
\* deletes as before.
SlotStep_lazy(st, addr, msg) ==
  IF ValidState(msg) THEN Measure(Allocate(st, addr), addr, msg)
  ELSE Delete(st, addr)

\* One pass of the loop body, radar_interface.py lines 111-124
SlotStep(st, addr, msg) ==
  LET a == Allocate(st, addr)
  IN IF ValidState(msg) THEN Measure(a, addr, msg) ELSE Delete(a, addr)

\* The loop of line 85 from slot addr on; an exception ends it.
RECURSIVE Decode(_, _, _)
Decode(st, addr, msgs) ==
  IF addr > NumSlots \/ st.err THEN st
  ELSE Decode(SlotStep(st, addr, msgs[addr]), addr + 1, msgs)

\* list(self.pts.values()), line 143
Values(store) == [k \in DOMAIN store |-> store[k].pt]

\* Variant: the right band ends at the MAX_LATERAL of CarState.
RadarRightLane_narrow(points) ==
  SelectSeq(points, LAMBDA pt : /\ pt.measured
                                /\ RADAR_LANE_BOUNDARY < pt.yRel
                                /\ pt.yRel < MAX_LATERAL)

\* radar_interface.py line 176
RadarRightLane(points) ==
  SelectSeq(points, LAMBDA pt : /\ pt.measured
                                /\ RADAR_LANE_BOUNDARY < pt.yRel
                                /\ pt.yRel < RADAR_MAX_LATERAL)

\* radar_interface.py line 174
RadarLeftLane(points) ==
  SelectSeq(points, LAMBDA pt : /\ pt.measured
                                /\ (0 - RADAR_MAX_LATERAL) < pt.yRel
                                /\ pt.yRel < (0 - RADAR_LANE_BOUNDARY))

\* radar_interface.py lines 179-180
NearestOrNone(lane) == IF lane # <<>> THEN Some(MinDRel(lane)) ELSE None

\* RadarInterface._update_adjacent_lane_leads, radar_interface.py lines 151-186
update_adjacent_lane_leads(points) ==
  /\ radar_points' = points
  /\ ri_left_lane_lead' = NearestOrNone(RadarLeftLane(points))
  /\ ri_right_lane_lead' = NearestOrNone(RadarRightLane(points))

\* Observer of the store: hi is the greatest track id a stored point has had
\* after any pass (-1: none), prev[a] the track id of the point slot a held
\* before its latest removal (-1: none), kept the slots whose point was in
\* the store before the latest pass and was given other values by it.
NoStoreObs == [hi |-> -1, prev |-> [a \in Slots |-> -1], kept |-> {}]

MaxOf(S, d) == IF S = {} THEN d ELSE CHOOSE x \in S : \A y \in S : y <= x

ObserveStore(o, store, store2) ==
  [hi |-> MaxOf({o.hi} \cup { store2[k].pt.trackId : k \in 1..Len(store2) }, o.hi),
   prev |-> [a \in Slots |->
               IF a \in Keys(store) /\ a \notin Keys(store2)
                 THEN store[PointOf(store, a)].pt.trackId
                 ELSE o.prev[a]],
   kept |-> { a \in Keys(store) \cap Keys(store2) :
                store2[PointOf(store2, a)].pt # store[PointOf(store, a)].pt }]

\* The points of the store are objects that lines 117-121 rewrite in place,
\* and a lead is a reference to a point.  ref (None or <<pt>>) refers to a
\* stored point when it is equal to one of store, the store before the
\* pass: it then shows what store2, the store after the pass, holds for
\* that slot.  A point that the pass deletes is left as it was, and so is
\* every point that is not in the store.
Deref(ref, store, store2) ==
  IF ref # None /\ \E k \in 1..Len(store) : store[k].pt = ref[1]
    THEN LET a == store[CHOOSE k \in 1..Len(store) : store[k].pt = ref[1]].key
         IN IF a \in Keys(store2) THEN Some(store2[PointOf(store2, a)].pt) ELSE ref
    ELSE ref

\* RadarInterface._update for the slot reports msgs (rcp.vl).  A KeyError
\* leaves the method inside the loop: the store is as the loop left it and
\* lines 143-149 are not run.  The leads of the CarState that refer to
\* stored points (carstate.py lines 105-106, 189, 230) change with them; the
\* candidate lists of the latest tracker call are locals of that call and
\* stay as the call built them.
RadarUpdate(msgs) ==
  LET st == Decode([pts |-> pts, track_id |-> track_id, err |-> FALSE], 1, msgs)
  IN /\ st.track_id <= MaxTrackId
     /\ vl' = msgs
     /\ pts' = st.pts
     /\ track_id' = st.track_id
     /\ IF st.err
          THEN /\ op' = "radar_keyerror"
               /\ radar_points' = [k \in DOMAIN radar_points |->
                                     Deref(Some(radar_points[k]), pts, st.pts)[1]]
               /\ ri_left_lane_lead' = Deref(ri_left_lane_lead, pts, st.pts)
               /\ ri_right_lane_lead' = Deref(ri_right_lane_lead, pts, st.pts)
          ELSE /\ op' = "radar_update"
               /\ update_adjacent_lane_leads(Values(st.pts))
     /\ obs' = ObserveStore(obs, pts, st.pts)
     /\ left_lane_lead' = Deref(left_lane_lead, pts, st.pts)
     /\ right_lane_lead' = Deref(right_lane_lead, pts, st.pts)
     /\ UNCHANGED <<left_lane_track_id, right_lane_track_id,
                    left_lane_track_count, right_lane_track_count,
                    left_lane_lost_count, right_lane_lost_count,
                    left_lane_quality, right_lane_quality,
                    left_lane, right_lane, v_ego, env>>

\* The reports a slot is read with: no detection, and three detections
\* (left lane, right lane, own lane).
SlotReports ==
  { Report(0, 0, 0, 0, 0),
    Report(3, 3000, -250, -500, 10),
    Report(4, 3000, 250, -500, 0),
    Report(3, 2000, 0, -300, 0) }

InitStore ==
  /\ RadarInit
  /\ CarStateInit
  /\ env = "radar"
  /\ obs = NoStoreObs

Pass ==
  \E msgs \in [Slots -> SlotReports] :
    RadarUpdate(msgs) /\ UNCHANGED <<updated_messages, vls>>

NextStore == Pass

SpecStore == InitStore /\ [][NextStore]_vars

\* The point slot addr has in the store.
Stored(store, addr) == store[PointOf(store, addr)].pt
StoredIds(store) == { store[k].pt.trackId : k \in 1..Len(store) }

\* C16: track ids are never reused: the stored points have pairwise distinct
\* track ids, a point inserted by a pass has a track id greater than every
\* track id given out before, and a slot that was removed and reports valid
\* again has a track id other than its earlier one.
C16_TrackIdsNeverReused ==
  [][ /\ \A i \in 1..Len(pts'), j \in 1..Len(pts') :
           i # j => pts'[i].pt.trackId # pts'[j].pt.trackId
      /\ \A id \in StoredIds(pts') : id < track_id'
      /\ \A a \in Keys(pts') \ Keys(pts) :
           /\ Stored(pts', a).trackId >= track_id
           /\ Stored(pts', a).trackId > obs.hi
           /\ Stored(pts', a).trackId # obs.prev[a]
    ]_vars

\* A slot is back in the store after a removal, next to another stored point.
C16_Witness ==
  /\ Len(pts) >= 2
  /\ \E a \in Keys(pts) : obs.prev[a] # -1 /\ Stored(pts, a).trackId > obs.prev[a]

\* C17 as stated: a pass raises the counter by the number of slots that were
\* absent from the store and report valid, so a slot that is absent and
\* reports invalid leaves store and counter alone.
C17_AllocatedOnlyOnValid ==
  [][ track_id' =
        track_id + Cardinality({ a \in Slots : a \notin Keys(pts) /\ ValidState(vl'[a]) })
    ]_vars

\* C17 as the code has it: a pass raises the counter by the number of slots
\* that were absent from the store, whatever they report; a slot that is
\* absent and reports invalid stays absent and the points of the other slots
\* are those of their own reports.
C17_AllocatedPerAbsentSlot ==
  [][ /\ track_id' = track_id + Cardinality(Slots \ Keys(pts))
      /\ \A a \in Slots \ Keys(pts) : ~ValidState(vl'[a]) => a \notin Keys(pts')
      /\ (\A a \in Slots : a \notin Keys(pts) /\ ~ValidState(vl'[a])) => pts' = pts
    ]_vars

\* No point was ever stored and the counter has advanced.
C17_Witness ==
  /\ op = "radar_update"
  /\ pts = <<>> /\ obs.hi = -1
  /\ \A a \in Slots : ~ValidState(vl[a])
  /\ track_id >= NumSlots

\* C18: while a slot reports valid in consecutive passes its point keeps its
\* track id, and dRel, yRel, vRel and aRel are those of the latest report.
C18_ValidSlotKeepsId ==
  [][ \A a \in Slots :
        (a \in DOMAIN vl /\ ValidState(vl[a]) /\ ValidState(vl'[a])) =>
           /\ a \in Keys(pts) /\ a \in Keys(pts')
           /\ Stored(pts', a).trackId = Stored(pts, a).trackId
           /\ Stored(pts', a).dRel = vl'[a].LONG_DIST
           /\ Stored(pts', a).yRel = vl'[a].LAT_DIST
           /\ Stored(pts', a).vRel = vl'[a].REL_SPEED
           /\ Stored(pts', a).aRel = vl'[a].REL_ACCEL
    ]_vars

\* A stored point was given other values by the latest pass.
C18_Witness ==
  \E a \in obs.kept :
    /\ ValidState(vl[a])
    /\ Stored(pts, a).yRel = vl[a].LAT_DIST
    /\ Stored(pts, a).dRel = vl[a].LONG_DIST

\* C19: after every pass a slot whose report was invalid has no point in the
\* store, and every point of ret.points is measured.
C19_NoStalePoint ==
  /\ \A a \in DOMAIN vl : ~ValidState(vl[a]) => a \notin Keys(pts)
  /\ \A k \in 1..Len(pts) : pts[k].pt.measured
  /\ \A k \in 1..Len(radar_points) : radar_points[k].measured

\* A slot that had a point reports invalid and is gone; another point stays.
C19_Witness ==
  /\ op = "radar_update"
  /\ pts # <<>>
  /\ radar_points = Values(pts)
  /\ \E a \in Slots : obs.prev[a] # -1 /\ ~ValidState(vl[a]) /\ a \notin Keys(pts)

-----------------------------------------------------------------------------
(* RadarInterface._update_adjacent_lane_leads on point lists of its own,   *)
(* as the tests of the repository call it.                                 *)

LeadPoints ==
  { RadarPoint(1, 5000, 50, -500, 0, TRUE),      \* own lane
    RadarPoint(2, 6000, -250, -500, 0, TRUE),    \* left lane
    RadarPoint(3, 7000, 280, -500, 0, TRUE),     \* right lane
    RadarPoint(4, 8000, -320, 50, 0, TRUE),      \* left lane, farther
    RadarPoint(5, 3000, -180, -500, 0, TRUE),    \* on -LANE_BOUNDARY
    RadarPoint(6, 3000, 180, -500, 0, TRUE),     \* on LANE_BOUNDARY
    RadarPoint(7, 3000, -550, -500, 0, TRUE),    \* on -MAX_LATERAL
    RadarPoint(8, 3000, 550, -500, 0, TRUE),     \* on MAX_LATERAL
    RadarPoint(9, 2000, -250, -500, 0, FALSE),   \* left lane, not measured
    RadarPoint(10, 6000, -300, -500, 0, TRUE),   \* left lane, as far as track 2
    RadarPoint(11, 9000, 500, -500, 0, TRUE),    \* right lane, beyond 4.5 m
    RadarPoint(12, 50, 250, 0, 0, TRUE) }        \* right lane, 0.5 m ahead

LeadsCall ==
  \E ps \in SeqsUpTo(LeadPoints, MaxLen) :
    /\ update_adjacent_lane_leads(ps)
    /\ op' = "leads"
    /\ UNCHANGED <<cs_vars, left_lane_quality, right_lane_quality,
                   left_lane, right_lane, v_ego, env, obs, pts, track_id, vl,
                   updated_messages, vls>>

NextLeads == LeadsCall

SpecLeads == InitStore /\ [][NextLeads]_vars

\* The measured points of the latest list in the open band of a side.
RadarBand(s) ==
  { pt \in Elems(radar_points) :
      /\ pt.measured
      /\ IF s = "l"
           THEN (0 - RADAR_MAX_LATERAL) < pt.yRel /\ pt.yRel < (0 - RADAR_LANE_BOUNDARY)
           ELSE RADAR_LANE_BOUNDARY < pt.yRel /\ pt.yRel < RADAR_MAX_LATERAL }
RadarLead(s) == IF s = "l" THEN ri_left_lane_lead ELSE ri_right_lane_lead

\* C20: after _update_adjacent_lane_leads the left lead is a point of minimal
\* dRel among the measured points with -5.5 < yRel < -1.8, the right lead
\* one among those with 1.8 < yRel < 5.5, each None when its band holds no
\* measured point; a point with |yRel| <= 1.8 or |yRel| >= 5.5 is not selected.
C20_NearestInBand ==
  \A s \in Sides :
    IF RadarBand(s) = {}
      THEN RadarLead(s) = None
      ELSE /\ RadarLead(s) # None
           /\ RadarLead(s)[1] \in RadarBand(s)
           /\ \A q \in RadarBand(s) : RadarLead(s)[1].dRel <= q.dRel
           /\ Abs(RadarLead(s)[1].yRel) > RADAR_LANE_BOUNDARY
           /\ Abs(RadarLead(s)[1].yRel) < RADAR_MAX_LATERAL

\* A nearer point on the lane boundary and a point at 5.0 m: the right lead
\* is the one at 5.0 m, the left band is empty.
C20_Witness ==
  /\ op = "leads"
  /\ radar_points = <<RadarPoint(6, 3000, 180, -500, 0, TRUE),
                      RadarPoint(11, 9000, 500, -500, 0, TRUE)>>
  /\ ri_right_lane_lead = Some(RadarPoint(11, 9000, 500, -500, 0, TRUE))
  /\ ri_left_lane_lead = None

-----------------------------------------------------------------------------
(* The calls of test_adjacent_lane_tracking.py: one call of                *)
(* update_adjacent_lanes_from_live_tracks(live_tracks) on a CarState that  *)
(* was just created, the argument v_ego left to its default.               *)

\* Points of create_mock_live_tracks and of test_edge_cases.
TestPoints ==
  { Point(1, 1000, -50, -200, TRUE),     \* own lane
    Point(3, 1500, -250, -300, TRUE),    \* left, nearest
    Point(4, 3000, -320, -250, TRUE),    \* left
    Point(6, 1200, 350, -400, TRUE),     \* right, nearest
    Point(7, 2000, 280, -350, TRUE),     \* right
    Point(9, 5000, 800, 0, TRUE),        \* too far right
    Point(1, 1000, 180, -200, TRUE),     \* on the lane boundary
    Point(1, 1000, 600, -200, TRUE),     \* beyond MAX_LATERAL
    Point(1, 3000, 250, -200, TRUE),     \* right, far
    Point(2, 1000, 250, -200, TRUE),     \* right, close
    Point(3, 2000, 250, -200, TRUE) }    \* right, medium

InitTest ==
  /\ RadarInit
  /\ CarStateInit
  /\ env = "test"
  /\ obs = [points |-> <<>>, applied |-> FALSE]

TestCall ==
  /\ ~obs.applied
  /\ \E ps \in SeqsUpTo(TestPoints, MaxLen) :
       /\ AdjacentLanesCall([present |-> TRUE, points |-> ps], DEFAULT_V_EGO)
       /\ obs' = [points |-> ps, applied |-> TRUE]

NextTest == TestCall

SpecTest == InitTest /\ [][NextTest]_vars

\* The measured points of the list in the band of side s.
MeasuredInBand(points, s) ==
  SelectSeq(points, LAMBDA pt : /\ pt.measured
                                /\ IF s = "l" THEN InLeftBand(pt) ELSE InRightBand(pt))

\* C21: after a single call on a fresh CarState with the default v_ego, each
\* lead is the nearest measured point of its band (None for an empty band).
C21_SingleCallNearest ==
  obs.applied =>
    \A s \in Sides :
      Lead(s) = NearestOrNone(MeasuredInBand(obs.points, s))

-----------------------------------------------------------------------------
\* C22: a cycle without detections (absent or empty point list) at or above
\* the speed gate is the empty-candidate case on both sides: both leads are
\* null after it and every side that holds a lock records a miss, the lock
\* being abandoned by the miss after MAX_LOST_COUNT.
C22_NoDetectionsIsMiss ==
  [][ ( /\ v_ego' >= MIN_SPEED_FOR_ADJACENT_LANES
        /\ \/ op' = "no_tracks"
           \/ op' = "tracked" /\ left_lane' = <<>> /\ right_lane' = <<>> ) =>
        \A s \in Sides :
          /\ Lead(s)' = None
          /\ Id(s) # None =>
               IF Lost(s) + 1 > MAX_LOST_COUNT
                 THEN Id(s)' = None /\ Count(s)' = 0 /\ Lost(s)' = 0
                 ELSE Id(s)' = Id(s) /\ Count(s)' = Count(s) /\ Lost(s)' = Lost(s) + 1
    ]_vars

-----------------------------------------------------------------------------
(* CarState next to the RadarInterface: update_radar_tracks copies the     *)
(* two leads of the RadarInterface into the CarState.                      *)

\* CarState.update_radar_tracks, carstate.py lines 102-106; a RadarInterface
\* always has the attribute left_lane_lead (radar_interface.py line 48).
update_radar_tracks ==
  /\ left_lane_lead' = ri_left_lane_lead
  /\ right_lane_lead' = ri_right_lane_lead
  /\ op' = "radar_tracks"
  /\ UNCHANGED <<left_lane_track_id, right_lane_track_id,
                 left_lane_track_count, right_lane_track_count,
                 left_lane_lost_count, right_lane_lost_count,
                 left_lane_quality, right_lane_quality, left_lane, right_lane,
                 v_ego, env, obs, ri_vars>>

TracksQuality == \E lq \in {0, 1} : update_canfd(lq, 0)

\* The reports of slot 1 in the passes: no detection, a detection in the left
\* lane at 30 m and at 25 m, and one in the own lane.
TracksReports ==
  { NoReport, Report(3, 3000, -250, -500, 10), Report(3, 2500, -250, -500, 10),
    Report(3, 2000, 0, -300, 0) }

\* A pass of the RadarInterface next to the CarState; the slots after the
\* first one report no detection.
TracksPass ==
  \E r \in TracksReports :
    /\ RadarUpdate([a \in Slots |-> IF a = 1 THEN r ELSE NoReport])
    /\ UNCHANGED <<updated_messages, vls>>

\* The tracker on the points of the store, as the latest pass returned them.
TracksStoreCycle ==
  /\ AdjacentLanesCall([present |-> TRUE, points |-> Values(pts)],
                       MIN_SPEED_FOR_ADJACENT_LANES)
  /\ UNCHANGED obs

NextTracks == TracksPass \/ update_radar_tracks \/ TracksQuality \/ TracksStoreCycle

SpecTracks == InitStore /\ [][NextTracks]_vars

\* The returns of update_adjacent_lanes_from_live_tracks.
TrackerCalls == {"no_tracks", "low_speed", "tracked"}

\* C23: the leads, locked ids and counters of the two sides are changed by
\* update_adjacent_lanes_from_live_tracks only: every other operation of
\* CarState, update_radar_tracks among them, leaves them as they are.
C23_OnlyTrackerChangesState ==
  [][ op' \notin TrackerCalls => UNCHANGED cs_vars ]_vars

-----------------------------------------------------------------------------
\* The points of the list left (yRel < 0) and right (yRel > 0) of the ego
\* vehicle.
Negative(points) == SelectSeq(points, LAMBDA pt : pt.yRel < 0)
Positive(points) == SelectSeq(points, LAMBDA pt : pt.yRel > 0)

\* C24: the two sides do not interact: the left locked id, counts and lead
\* after a cycle are those the left tracker computes from the ego speed, the
\* left lane quality and the points with yRel < 0 alone, whatever the right
\* lane quality and the points with yRel > 0 are; symmetrically for the right.
C24_SidesIndependent ==
  [][ (~obs.applied /\ obs'.applied /\ op' = "tracked") =>
        /\ TrackerState(left_lane_track_id', left_lane_track_count',
                        left_lane_lost_count', left_lane_lead')
             = LeftTracker(left_lane_track_id, left_lane_track_count,
                           left_lane_lost_count, left_lane_lead,
                           LeftLane(Negative(obs'.points), v_ego', left_lane_quality))
        /\ TrackerState(right_lane_track_id', right_lane_track_count',
                        right_lane_lost_count', right_lane_lead')
             = RightTracker(right_lane_track_id, right_lane_track_count,
                            right_lane_lost_count, right_lane_lead,
                            RightLane(Positive(obs'.points), v_ego', right_lane_quality))
    ]_vars

\* Both sides were passed their locked track, the right quality not
\* asserted: the left lead is confirmed, the right lock misses.
C24_Witness ==
  /\ GateTracked
  /\ obs.points = <<gL, gR>>
  /\ left_lane_quality = 1 /\ right_lane_quality = 0
  /\ left_lane_lead = Some(gL) /\ left_lane_track_count = MIN_TRACK_COUNT
  /\ right_lane_lead = None /\ right_lane_lost_count = 1

-----------------------------------------------------------------------------
(* Tracks that change sides.                                               *)
(*                                                                         *)
(* SpecCross feeds both trackers, both qualities asserted, with lists in   *)
(* which every track id occurs once, as in the lists of the detection      *)
(* store: track 2 is seen on the left or on the right, track 3 on the      *)
(* right.                                                                  *)

CrossPoints ==
  { gL, gR, Point(3, 7000, 300, -500, TRUE) }

\* The lists of at most MaxLen points with pairwise distinct track ids.
CrossLists ==
  { ps \in SeqsUpTo(CrossPoints, MaxLen) :
      \A i \in 1..Len(ps), j \in 1..Len(ps) : i # j => ps[i].trackId # ps[j].trackId }

InitCross ==
  /\ RadarInit
  /\ CarStateInit
  /\ env = "cross"
  /\ obs = [l |-> NoObs, r |-> NoObs]

CrossQuality == update_canfd(1, 1)

CrossCycle ==
  \E ps \in CrossLists :
    /\ AdjacentLanesCall([present |-> TRUE, points |-> ps], MIN_SPEED_FOR_ADJACENT_LANES)
    /\ UNCHANGED obs

\* A call without a point list between the cycles.
CrossNoTracks ==
  /\ AdjacentLanesCall(NoLiveTracks, MIN_SPEED_FOR_ADJACENT_LANES)
  /\ UNCHANGED obs

NextCross == CrossQuality \/ CrossCycle \/ CrossNoTracks

SpecCross == InitCross /\ [][NextCross]_vars

\* C25 as stated: in no reachable state are the two locked ids both non-null
\* and equal.
C25_LocksNeverEqual ==
  ~(left_lane_track_id # None /\ left_lane_track_id = right_lane_track_id)

\* C25 as the code has it: no track is a candidate of both sides in one
\* cycle and the two leads are never points of one track; the locked ids may
\* be equal, and then at most one side has a lead.
C25_LeadsNeverSameTrack ==
  /\ \A p \in Elems(left_lane), q \in Elems(right_lane) : p.trackId # q.trackId
  /\ \A p \in Elems(left_lane_lead), q \in Elems(right_lane_lead) : p.trackId # q.trackId
  /\ (left_lane_track_id # None /\ left_lane_track_id = right_lane_track_id) =>
       (left_lane_lead = None \/ right_lane_lead = None)

\* Track 2 was locked on the left and has moved to the right band: the right
\* side has confirmed it while the left side still holds its id.
C25_Witness ==
  /\ op = "tracked"
  /\ left_lane_track_id = Some(2) /\ right_lane_track_id = Some(2)
  /\ left_lane_lost_count >= MIN_TRACK_COUNT /\ left_lane_lead = None
  /\ right_lane = <<gR>> /\ right_lane_lead = Some(gR)

-----------------------------------------------------------------------------
\* The lists that hold the points of ps in any order.
Perms(ps) == { q \in SeqsUpTo(Elems(ps), Len(ps)) : Len(q) = Len(ps) }

\* C26: the result of a cycle depends on the set of its points only: every
\* permutation of the point list gives the same locked ids, counts and
\* leads, also when two candidates of a side have equal dRel.
C26_OrderIndependent ==
  [][ (~obs.applied /\ obs'.applied /\ op' = "tracked") =>
        \A q \in Perms(obs'.points) :
          /\ TrackerState(left_lane_track_id', left_lane_track_count',
                          left_lane_lost_count', left_lane_lead')
               = LeftTracker(left_lane_track_id, left_lane_track_count,
                             left_lane_lost_count, left_lane_lead,
                             LeftLane(q, v_ego', left_lane_quality))
          /\ TrackerState(right_lane_track_id', right_lane_track_count',
                          right_lane_lost_count', right_lane_lead')
               = RightTracker(right_lane_track_id, right_lane_track_count,
                              right_lane_lost_count, right_lane_lead,
                              RightLane(q, v_ego', right_lane_quality))
    ]_vars

-----------------------------------------------------------------------------
\* C27: in the cycle in which a side's lock is abandoned (the miss takes
\* lost_count over MAX_LOST_COUNT) the side re-acquires at once: with
\* candidates it ends locked on the nearest one with count 1, lost 0 and a
\* null lead; without, it ends unlocked with count 0, lost 0 and a null lead.
C27_ReacquireInAbandonCycle ==
  [][ \A s \in Sides :
        ( /\ op' = "tracked"
          /\ Id(s) # None
          /\ AbsentNext(s)
          /\ Lost(s) + 1 > MAX_LOST_COUNT ) =>
           /\ Lost(s)' = 0 /\ Lead(s)' = None
           /\ IF Lane(s)' # <<>>
                THEN /\ Id(s)' # None
                     /\ IsNearest(Lane(s)', Id(s)'[1])
                     /\ Count(s)' = 1
                ELSE Id(s)' = None /\ Count(s)' = 0
    ]_vars

\* The latest cycle gave up the left lock and took the one candidate.
C27_Witness ==
  /\ op = "tracked"
  /\ obs.l.dropped
  /\ left_lane # <<>>
  /\ left_lane_track_id = Some(left_lane[1].trackId)
  /\ left_lane_track_count = 1 /\ left_lane_lost_count = 0 /\ left_lane_lead = None

\* C29: a lock is sticky: in a cycle in which the locked track is a candidate
\* of its side the locked id stays, and a lead is the locked track's point
\* whatever the dRel of the other candidates; the id changes only in the
\* cycle that abandons the lock.
C29_LockSticky ==
  [][ \A s \in Sides :
        Id(s) # None =>
          /\ (op' = "tracked" /\ ~AbsentNext(s)) =>
               /\ Id(s)' = Id(s)
               /\ Lead(s)' \in {None, SameTrack(Lane(s)', Id(s)[1])}
               /\ Count(s)' >= MIN_TRACK_COUNT => Lead(s)' # None
          /\ Id(s)' # Id(s) =>
               op' = "tracked" /\ AbsentNext(s) /\ Lost(s) = MAX_LOST_COUNT
    ]_vars

\* The left lead is the locked track 3 at 70 m although track 2 at 30 m is
\* a candidate as well.
C29_Witness ==
  /\ op = "tracked"
  /\ left_lane_track_id = Some(3)
  /\ left_lane_lead = Some(Point(3, 7000, -300, -500, TRUE))
  /\ Point(2, 3000, -250, -500, TRUE) \in Elems(left_lane)

\* C30: a cycle below the speed gate changes nothing but the two leads: the
\* locked ids, track counts and lost counts stay, so the lock survives any
\* number of such cycles, and a confirmed track is exposed in the first
\* cycle at or above the gate in which it is a candidate.
C30_LowSpeedKeepsLock ==
  [][ \A s \in Sides :
        /\ (op' \in Cycles /\ v_ego' < MIN_SPEED_FOR_ADJACENT_LANES) =>
             /\ Id(s)' = Id(s) /\ Count(s)' = Count(s) /\ Lost(s)' = Lost(s)
             /\ Lead(s)' = None
        /\ ( /\ op' = "tracked"
             /\ Id(s) # None /\ Count(s) >= MIN_TRACK_COUNT
             /\ ~AbsentNext(s) ) =>
             Lead(s)' # None /\ Lead(s)' = SameTrack(Lane(s)', Id(s)[1])
    ]_vars

\* A confirmed left lock after two cycles below the gate in a row.
C30_Witness ==
  /\ op = "low_speed"
  /\ left_lane_track_id # None /\ left_lane_track_count >= MIN_TRACK_COUNT
  /\ obs.l.exposed /\ obs.l.gap >= 2 /\ obs.l.misses = 0
  /\ left_lane_lost_count = 0 /\ left_lane_lead = None

-----------------------------------------------------------------------------
\* C28: the pass of the detection store raises no error for any sequence of
\* valid and invalid slot reports: every removal finds its key in the map.
C28_NoKeyError == op # "radar_keyerror"

\* A slot that never held a point has reported invalid in more than one pass.
C28_Witness ==
  /\ op = "radar_update"
  /\ track_id > NumSlots
  /\ \E a \in Slots : a \notin Keys(pts) /\ obs.prev[a] = -1 /\ ~ValidState(vl[a])

-----------------------------------------------------------------------------
\* C31: after every call of update_adjacent_lanes_from_live_tracks, on each
\* side: 0 <= lost_count <= MAX_LOST_COUNT; no locked id implies track count
\* 0, lost count 0 and a null lead; a locked id implies track count >= 1; a
\* non-null lead implies lost count 0.
C31_TrackerInvariant ==
  op \in TrackerCalls =>
    \A s \in Sides :
      /\ 0 <= Lost(s) /\ Lost(s) <= MAX_LOST_COUNT
      /\ Id(s) = None => Count(s) = 0 /\ Lost(s) = 0 /\ Lead(s) = None
      /\ Id(s) # None => Count(s) >= 1
      /\ Lead(s) # None => Lost(s) = 0

\* A confirmed left lock on its last miss before it is given up, after a
\* call without a point list.
C31_Witness ==
  /\ op = "no_tracks"
  /\ left_lane_track_id # None /\ left_lane_track_count >= MIN_TRACK_COUNT
  /\ left_lane_lost_count = MAX_LOST_COUNT /\ left_lane_lead = None

-----------------------------------------------------------------------------
\* C32: with point lists in which every track id occurs once, after every
\* call the left and the right lead are never both non-null with the same
\* track id, also while both sides are locked on the same track id.
C32_LeadsOfDistinctTracks ==
  op \in TrackerCalls =>
    ~( /\ left_lane_lead # None /\ right_lane_lead # None
       /\ left_lane_lead[1].trackId = right_lane_lead[1].trackId )

\* Track 2 was locked on the right and has moved to the left band: the left
\* side shows it while the right side still holds its id; a call without a
\* point list has followed.
C32_Witness ==
  /\ op = "no_tracks"
  /\ left_lane_track_id = Some(2) /\ right_lane_track_id = Some(2)
  /\ left_lane_lead = Some(gL) /\ right_lane_lead = None
  /\ right_lane_lost_count >= MIN_TRACK_COUNT

-----------------------------------------------------------------------------
(* Response of one side to a steady track.                                 *)
(*                                                                         *)
(* SpecResp runs the tracker of one side (env says which) on lists of two  *)
(* tracks of that side, at speeds below and at the gate, the camera        *)
(* setting and dropping the side's lane quality, with calls without a      *)
(* point list in between.  Here obs counts the latest consecutive cycles   *)
(* in which the side's candidate list held one track only: t is that       *)
(* track, n the number of these cycles, counted up to RespCap.             *)

RespDeadline == MAX_LOST_COUNT + MIN_TRACK_COUNT
RespCap == RespDeadline + 1

RespSide == IF env = "resp_l" THEN "l" ELSE "r"

RespPoints(e) ==
  IF e = "resp_l"
    THEN { gL, Point(3, 7000, -300, -500, TRUE) }
    ELSE { gR, Point(3, 7000, 300, -500, TRUE) }

RespQualities(e) == IF e = "resp_l" THEN {<<0, 0>>, <<1, 0>>} ELSE {<<0, 0>>, <<0, 1>>}

\* The candidate list of a cycle holds the track id only.
OnlyTrack(lane, id) == lane # <<>> /\ \A k \in 1..Len(lane) : lane[k].trackId = id

ObserveResp(o, lane2, q2, v2, op2) ==
  IF op2 = "tracked" /\ v2 >= MIN_SPEED_FOR_ADJACENT_LANES /\ q2 > 0
       /\ lane2 # <<>> /\ OnlyTrack(lane2, lane2[1].trackId)
    THEN [t |-> lane2[1].trackId,
          n |-> IF o.t = lane2[1].trackId /\ o.n < RespCap THEN o.n + 1
                ELSE IF o.t = lane2[1].trackId THEN RespCap ELSE 1]
    ELSE [t |-> 0, n |-> 0]

InitResp ==
  /\ RadarInit
  /\ CarStateInit
  /\ env \in {"resp_l", "resp_r"}
  /\ obs = [t |-> 0, n |-> 0]

RespQuality == \E q \in RespQualities(env) : update_canfd(q[1], q[2])

RespCycle ==
  \E ps \in SeqsUpTo(RespPoints(env), MaxLen), v \in {893, 894} :
    /\ AdjacentLanesCall([present |-> TRUE, points |-> ps], v)
    /\ obs' = ObserveResp(obs, Lane(RespSide)', Quality(RespSide)', v, op')

\* A call without a point list is no cycle: the count stays.
RespNoTracks ==
  /\ AdjacentLanesCall(NoLiveTracks, MIN_SPEED_FOR_ADJACENT_LANES)
  /\ UNCHANGED obs

NextResp == RespQuality \/ RespCycle \/ RespNoTracks

SpecResp == InitResp /\ [][NextResp]_vars

\* C33: bounded response.  From any state the tracker reaches, once the
\* side's candidate list has held the one track T in MAX_LOST_COUNT +
\* MIN_TRACK_COUNT consecutive cycles (at or above 8.94 m/s, the side's lane
\* quality asserted), T's point is the side's lead, and it stays the lead in
\* every later such cycle.
C33_BoundedResponse ==
  obs.n >= RespDeadline =>
    /\ Lead(RespSide) # None
    /\ Lead(RespSide)[1].trackId = obs.t
    /\ Id(RespSide) = Some(obs.t)
    /\ op = "tracked" => Lead(RespSide) = SameTrack(Lane(RespSide), obs.t)

\* The worst case: a lock on another track was held without a miss when the
\* steady cycles began; the lead appears in the last cycle the claim allows.
C33_Witness ==
  /\ op = "tracked" /\ env = "resp_l"
  /\ obs.n = RespDeadline /\ obs.t = 2
  /\ left_lane_track_count = MIN_TRACK_COUNT
  /\ left_lane_lead = Some(gL)

-----------------------------------------------------------------------------
\* C34: the ego-stopped velocity rule of the lane gate never admits a point:
\* a cycle with v_ego <= 1.0 m/s returns at the speed gate, so both candidate
\* lists are empty and both leads null after it, also for a point of the
\* lateral band with vRel <= -7.0 m/s on a side whose quality is asserted;
\* the candidate lists are built with v_ego > 1.0 m/s only.
C34_StoppedRuleDead ==
  /\ (obs.applied /\ op \in Cycles /\ v_ego <= MOVING_SPEED) =>
        /\ op = "low_speed"
        /\ left_lane = <<>> /\ right_lane = <<>>
        /\ left_lane_lead = None /\ right_lane_lead = None
  /\ (obs.applied /\ op = "tracked") => v_ego > MOVING_SPEED

\* A fresh tracker was passed the point that pulls away at 8 m/s, the ego
\* vehicle at 0.5 m/s and the left quality asserted: the velocity rule would
\* admit the point, yet no candidate list is built and no lock is taken.
C34_Witness ==
  /\ obs.applied /\ op = "low_speed" /\ v_ego = 50
  /\ left_lane_quality > 0
  /\ obs.points = <<gFast>>
  /\ PassesFilters(gFast, v_ego) /\ InLeftBand(gFast) /\ gFast.vRel <= STOPPED_VREL_MAX
  /\ left_lane_track_id = None /\ left_lane_track_count = 0
  /\ left_lane = <<>> /\ left_lane_lead = None

-----------------------------------------------------------------------------
(* RadarInterface.update, radar_interface.py lines 58-71, with the radar   *)
(* on the bus (radar_off_can false, a parser present): the addresses that  *)
(* rcp.update returns are collected in updated_messages, and the store     *)
(* pass runs once the address of the last slot is among them.              *)

\* radar_interface.py line 41: radar_addr + radar_count - 1
trigger_msg == NumSlots

\* rcp.vl after rcp.update: the slots in new hold the reports that came in,
\* the others what they held.
Received(new, reports) ==
  [a \in Slots |->
     IF a \in new THEN reports[a]
     ELSE IF a \in DOMAIN vl THEN vl[a] ELSE NoReport]

\* Variant: the pass runs as soon as any address has come in.
Triggered_any(acc) == acc # {}

\* radar_interface.py line 65
Triggered(acc) == trigger_msg \in acc

\* RadarInterface.update for the addresses new and their reports.  An
\* exception of the pass leaves the method before line 69.
update(new, reports) ==
  LET acc == updated_messages \cup new
      msgs == Received(new, reports)
  IN /\ vls' = new
     /\ IF ~Triggered(acc)
          THEN /\ updated_messages' = acc
               /\ vl' = msgs
               /\ op' = "update_none"
               /\ UNCHANGED <<pts, track_id, ri_left_lane_lead, ri_right_lane_lead,
                              radar_points, obs, cs_vars, left_lane_quality,
                              right_lane_quality, left_lane, right_lane, v_ego, env>>
          ELSE /\ RadarUpdate(msgs)
               /\ updated_messages' = IF op' = "radar_keyerror" THEN acc ELSE {}

InitUpdate ==
  /\ RadarInit
  /\ CarStateInit
  /\ env = "update"
  /\ obs = NoStoreObs

\* The reports that come in: no detection, and a detection in the left lane.
UpdateReports == { NoReport, Report(3, 3000, -250, -500, 10) }

UpdateCall ==
  \E new \in SUBSET Slots :
    \E reports \in [new -> UpdateReports] : update(new, reports)

NextUpdate == UpdateCall

SpecUpdate == InitUpdate /\ [][NextUpdate]_vars

\* The returns of RadarInterface.update.
UpdateCalls == {"update_none", "radar_update", "radar_keyerror"}

\* C35: RadarInterface.update runs a store pass only in a call after which
\* the trigger address is among the addresses collected since the previous
\* pass, and after a pass the collected set is empty; every other call
\* returns None and leaves the store, the track-id counter and the two lane
\* leads as they were.
C35_PassOnTrigger ==
  [][ op' \in UpdateCalls =>
        /\ op' = "radar_update" =>
             /\ trigger_msg \in updated_messages \cup vls'
             /\ updated_messages' = {}
        /\ op' # "radar_update" =>
             /\ op' = "update_none"
             /\ UNCHANGED <<pts, track_id, ri_left_lane_lead, ri_right_lane_lead>>
    ]_vars

\* The first pass: the report of slot 1 came in with an earlier call, the
\* trigger address alone with this one.
C35_Witness ==
  /\ op = "radar_update"
  /\ vls = {trigger_msg} /\ updated_messages = {}
  /\ track_id = NumSlots
  /\ 1 \in Keys(pts) /\ Stored(pts, 1).yRel = vl[1].LAT_DIST
  /\ ri_left_lane_lead # None

-----------------------------------------------------------------------------
(* filter_adjacent_lanes of test_adjacent_lane_simple.py, the helper that  *)
(* the test suite runs in place of CarState, next to the call it stands    *)
(* for.  SpecSim starts like SpecGate, runs one call of                    *)
(* update_adjacent_lanes_from_live_tracks on a list of the points of the   *)
(* test file, and records in obs what the helper returns for that list.    *)

\* Defaults of the helper's arguments lane_boundary and max_lateral.
lane_boundary == 180
max_lateral == 550

\* test_adjacent_lane_simple.py lines 33-45
FilterLeftLane(points) ==
  SelectSeq(points, LAMBDA pt : /\ pt.measured
                                /\ (0 - max_lateral) < pt.yRel
                                /\ pt.yRel < (0 - lane_boundary))

FilterRightLane(points) ==
  SelectSeq(points, LAMBDA pt : /\ pt.measured
                                /\ ~((0 - max_lateral) < pt.yRel /\ pt.yRel < (0 - lane_boundary))
                                /\ lane_boundary < pt.yRel
                                /\ pt.yRel < max_lateral)

\* filter_adjacent_lanes(live_tracks): the pair it returns.
filter_adjacent_lanes(live_tracks) ==
  IF ~live_tracks.present THEN <<None, None>>
  ELSE <<NearestOrNone(FilterLeftLane(live_tracks.points)),
         NearestOrNone(FilterRightLane(live_tracks.points))>>

\* Points of create_test_scenario, test_edge_cases and
\* test_real_world_scenario.
SimPoints ==
  { Point(1, 1000, -50, -200, TRUE),     \* own lane
    Point(3, 1500, -250, -300, TRUE),    \* left, nearest
    Point(6, 1200, 350, -400, TRUE),     \* right, nearest
    Point(1, 1000, 180, -200, TRUE),     \* on the lane boundary
    Point(1, 1000, 600, -200, TRUE),     \* 6.0 m to the right
    Point(2, 1000, 250, -200, TRUE),     \* right, close
    Point(5, 1420, 445, 0, TRUE),        \* right, vRel 0
    Point(6, 1540, 480, 0, TRUE) }       \* right, 4.8 m

SimSpeeds == {DEFAULT_V_EGO, 1500}

InitSim ==
  /\ RadarInit
  /\ env = "sim"
  /\ obs = [points |-> <<>>, applied |-> FALSE, sim |-> <<None, None>>]
  /\ \E st \in GateStarts :
       /\ left_lane_lead = st.llead /\ right_lane_lead = st.rlead
       /\ left_lane_track_id = st.id /\ right_lane_track_id = st.id
       /\ left_lane_track_count = st.count /\ right_lane_track_count = st.count
       /\ left_lane_lost_count = st.lost /\ right_lane_lost_count = st.lost
       /\ left_lane_quality = st.q /\ right_lane_quality = st.q
       /\ left_lane = st.ll /\ right_lane = st.rl
       /\ v_ego = IF st.op = "init" THEN 0 ELSE 1500
       /\ op = st.op

SimSetQuality == \E lq \in {0, 1}, rq \in {0, 1} : update_canfd(lq, rq)

SimCall ==
  /\ ~obs.applied
  /\ \E ps \in SeqsUpTo(SimPoints, MaxLen), v \in SimSpeeds :
       /\ AdjacentLanesCall([present |-> TRUE, points |-> ps], v)
       /\ obs' = [points |-> ps, applied |-> TRUE,
                  sim |-> filter_adjacent_lanes([present |-> TRUE, points |-> ps])]

NextSim == SimSetQuality \/ SimCall

SpecSim == InitSim /\ [][NextSim]_vars

\* C36: filter_adjacent_lanes simulates CarState: for every point list the
\* pair of leads it returns is the pair of leads CarState holds after
\* processing the same list.
C36_HelperSimulatesCarState ==
  obs.applied => <<left_lane_lead, right_lane_lead>> = obs.sim

=============================================================================
